---- MODULE Spec2Model ----
(***************************************************************************)
(* Referral placement, incentive distribution, pin lifecycle and           *)
(* withdrawal processing of mlm-backend-mern, as a state machine.          *)
(*                                                                         *)
(* Persistence is MongoDB through mongoose.  A write that is given         *)
(* `{ session }` is buffered in that session's transaction and becomes     *)
(* visible at commitTransaction; a read that is NOT given the session      *)
(* reads the latest committed data.  A transaction takes its snapshot at   *)
(* its first operation; writing a document that another open transaction  *)
(* has written, or that was committed after the snapshot, raises a         *)
(* WriteConflict, which the handlers catch and answer by aborting.  A      *)
(* write outside any transaction waits while an open transaction holds     *)
(* the document.  Every `await` of a handler is one step of its process.   *)
(*                                                                         *)
(* Money is kept in hundredths (4 -> 400, 0.08 * 120 -> 960).              *)
(***************************************************************************)
EXTENDS Integers, Sequences, FiniteSets, TLC

VARIABLES db, proc, resp, committed

vars == <<db, proc, resp, committed>>

(* ------------------------------------------------------------------ *)
(* Bounds                                                              *)
(* ------------------------------------------------------------------ *)
MaxRegs == 2
MaxReqs == 1
MaxCredits == 1

Procs == {1, 2}

Nil == 0 - 1

(* ------------------------------------------------------------------ *)
(* Package catalogue and the bonus table                               *)
(* ------------------------------------------------------------------ *)
Packages == (1 :> [productPrice |-> 60, directIncome |-> 600])
         @@ (2 :> [productPrice |-> 1300, directIncome |-> 3600])

NaN == 0 - 999999

levelIncomeMap(price) ==
  CASE price = 60 -> [byLevel |-> <<400, 300, 200, 100, 100, 100, 100, 50, 30>>, default |-> 20]
    [] price = 200 -> [byLevel |-> <<1000, 600, 400, 150, 150, 150, 150, 100, 60>>, default |-> 40]
    [] price = 1300 -> [byLevel |-> <<6400, 4800, 3400, 2000, 2000, 2000, 2000, 1000, 800>>, default |-> 200]
    [] OTHER -> [byLevel |-> <<>>, default |-> NaN]

\* packageIncome[level] || packageIncome.default
packageIncome(price, level) ==
  LET t == levelIncomeMap(price)
  IN IF level \in 1..Len(t.byLevel) THEN t.byLevel[level] ELSE t.default

(* ------------------------------------------------------------------ *)
(* Level thresholds                                                    *)
(* ------------------------------------------------------------------ *)
\* variant: a level is reached only above its threshold
computeLevelAbove(totalCount) ==
  IF totalCount > 9765625 THEN 10
  ELSE IF totalCount > 1953125 THEN 9
  ELSE IF totalCount > 390625 THEN 8
  ELSE IF totalCount > 78125 THEN 7
  ELSE IF totalCount > 15625 THEN 6
  ELSE IF totalCount > 3125 THEN 5
  ELSE IF totalCount > 625 THEN 4
  ELSE IF totalCount > 125 THEN 3
  ELSE IF totalCount > 25 THEN 2
  ELSE 1

computeLevel(totalCount) ==
  IF totalCount >= 9765625 THEN 10
  ELSE IF totalCount >= 1953125 THEN 9
  ELSE IF totalCount >= 390625 THEN 8
  ELSE IF totalCount >= 78125 THEN 7
  ELSE IF totalCount >= 15625 THEN 6
  ELSE IF totalCount >= 3125 THEN 5
  ELSE IF totalCount >= 625 THEN 4
  ELSE IF totalCount >= 125 THEN 3
  ELSE IF totalCount >= 25 THEN 2
  ELSE 1

\* countDocuments({referrer}) + countDocuments({referrer: {$ne}, referred})
calculateUserLevel(edges, userId) ==
  computeLevel(Cardinality({e \in edges : e[1] = userId})
             + Cardinality({e \in edges : e[1] # userId /\ e[2] = userId}))

\* variant: the referrer's level counts only the edge pointing to the member
calculateReferreUserLevelInbound(edges, userId) ==
  computeLevel(Cardinality({e \in edges : e[1] # userId /\ e[2] = userId}))

calculateReferreUserLevel(edges, userId) ==
  computeLevel(Cardinality({e \in edges : e[1] = userId})
             + Cardinality({e \in edges : e[1] # userId /\ e[2] = userId}))

(* ------------------------------------------------------------------ *)
(* Placement                                                           *)
(* ------------------------------------------------------------------ *)
\* ReferralTracking.find({ referrer }) mapped to child.referred
referrerChildren(edges, r) == {e[2] : e \in {x \in edges : x[1] = r}}

\* "referralDetails.5": { $exists: false } : the looked-up array has no
\* element at index 5, that is, at most five entries
hasNoSixth(edges, u) == Cardinality(referrerChildren(edges, u)) <= 5

\* variant: the $match does not restrict _id to the referrer's children
eligibleChildAnyMember(users, edges, kids) ==
  {u \in users : hasNoSixth(edges, u)}

\* the aggregate's $match over the users collection
eligibleChild(users, edges, kids) ==
  {u \in users : u \in kids /\ hasNoSixth(edges, u)}

\* the placement parents getReferralParent may return when the find sees
\* edges1 and the aggregate sees users2/edges2 ($limit 1, no sort)
getReferralParent(referrer, edges1, users2, edges2) ==
  LET kids == referrerChildren(edges1, referrer)
      elig == eligibleChild(users2, edges2, kids)
  IN IF Cardinality(kids) >= 5
       THEN IF elig # {} THEN elig ELSE {referrer}
       ELSE {referrer}

(* ------------------------------------------------------------------ *)
(* The database                                                        *)
(* ------------------------------------------------------------------ *)
Root == 0

mobileOf(id) == 9000 + id

SeedUsers == 0..29

SeedEdges == {<<Root, k>> : k \in 1..5}
        \cup {<<c, 6 * c + j>> : c \in 1..4, j \in 0..5}

\* The state after the administrator account was created, 29 pins of
\* package 2 were issued and consumed by 29 registrations made with the
\* administrator's referral code (five attached to the administrator, then
\* six spilled to each of the children 1..4), and pin 101 of package 1 was
\* issued.
SeedDb ==
  [users |-> [id \in SeedUsers |->
                [mobileNumber |-> mobileOf(id),
                 userType |-> IF id = Root THEN "Admin" ELSE "User",
                 level |-> IF id \in 0..4 THEN 1 ELSE 0]],
   edges |-> SeedEdges,
   pins |-> [c \in (1..29) \cup {101} |->
                [status |-> IF c <= 29 THEN "used" ELSE "available",
                 assignedTo |-> Nil,
                 generatedBy |-> Root,
                 packageId |-> IF c = 101 THEN 1 ELSE 2]],
   wallets |-> <<[user |-> Root, directReferralIncome |-> 50000,
                  indirectReferralIncome |-> 153600]>>,
   reqs |-> <<>>,
   history |-> <<>>]

(* ------------------------------------------------------------------ *)
(* Write operations and their effect on the committed data             *)
(* ------------------------------------------------------------------ *)
walletIndex(d, u) ==
  IF \E i \in 1..Len(d.wallets) : d.wallets[i].user = u
    THEN CHOOSE i \in 1..Len(d.wallets) :
           /\ d.wallets[i].user = u
           /\ \A j \in 1..(i - 1) : d.wallets[j].user # u
    ELSE 0

Apply(d, op) ==
  CASE op.k = "insUser" ->
         [d EXCEPT !.users = @ @@ (op.id :>
            [mobileNumber |-> op.mobileNumber, userType |-> "User", level |-> 0])]
    [] op.k = "insEdge" ->
         [d EXCEPT !.edges = @ \cup {<<op.referrer, op.referred>>}]
    [] op.k = "setLevel" ->
         IF op.id \in DOMAIN d.users
           THEN [d EXCEPT !.users[op.id].level = op.level]
           ELSE d
    [] op.k = "insWallet" ->
         [d EXCEPT !.wallets = Append(@,
            [user |-> op.user,
             directReferralIncome |-> IF op.field = "directReferralIncome" THEN op.amount ELSE 0,
             indirectReferralIncome |-> IF op.field = "indirectReferralIncome" THEN op.amount ELSE 0])]
    [] op.k = "incWallet" ->
         LET i == walletIndex(d, op.user)
         IN IF i = 0 THEN d
            ELSE IF op.field = "directReferralIncome"
              THEN [d EXCEPT !.wallets[i].directReferralIncome = @ + op.amount]
              ELSE [d EXCEPT !.wallets[i].indirectReferralIncome = @ + op.amount]
    [] op.k = "saveWallet" ->
         LET i == walletIndex(d, op.user)
         IN IF i = 0 THEN d
            ELSE IF op.both
              THEN [d EXCEPT !.wallets[i].directReferralIncome = op.direct,
                             !.wallets[i].indirectReferralIncome = op.indirect]
              ELSE [d EXCEPT !.wallets[i].directReferralIncome = op.direct]
    [] op.k = "usePin" ->
         [d EXCEPT !.pins[op.pin].status = "used"]
    [] op.k = "savePin" ->
         [d EXCEPT !.pins[op.pin].status = op.status,
                   !.pins[op.pin].assignedTo = op.assignedTo]
    [] op.k = "insPin" ->
         [d EXCEPT !.pins = @ @@ (op.pin :>
            [status |-> "available", assignedTo |-> Nil,
             generatedBy |-> op.generatedBy, packageId |-> op.packageId])]
    [] op.k = "insReq" ->
         [d EXCEPT !.reqs = Append(@, op.doc)]
    [] op.k = "saveReq" ->
         [d EXCEPT !.reqs[op.req].status = op.status]
    [] op.k = "insHistory" ->
         [d EXCEPT !.history = Append(@, op.doc)]
    [] OTHER -> d

RECURSIVE ApplyAll(_, _)
ApplyAll(d, ops) ==
  IF ops = <<>> THEN d ELSE ApplyAll(Apply(d, Head(ops)), Tail(ops))

\* the document (or unique index entry) an operation writes
KeyOf(op) ==
  CASE op.k = "insUser" -> <<"mobile", op.mobileNumber>>
    [] op.k = "insEdge" -> <<"edge", op.referred>>
    [] op.k = "setLevel" -> <<"user", op.id>>
    [] op.k \in {"insWallet", "incWallet", "saveWallet"} -> <<"wallet", op.user>>
    [] op.k \in {"usePin", "savePin"} -> <<"pin", op.pin>>
    [] op.k = "insReq" -> <<"newreq", 0>>
    [] op.k = "saveReq" -> <<"req", op.req>>
    [] OTHER -> <<"history", 0>>

\* inserts of fresh documents without a unique index never conflict
Contended(key) == key[1] \in {"mobile", "user", "wallet", "pin", "req"}

KeysOf(ops) == {k \in {KeyOf(ops[i]) : i \in 1..Len(ops)} : Contended(k)}

Idle == [h |-> "idle", pc |-> "idle", snap |-> FALSE, ops |-> <<>>, stale |-> {}]

NoResp == [h |-> "none", status |-> 0, msg |-> "none"]

HeldByOthers(p) == UNION {KeysOf(proc[q].ops) : q \in Procs \ {p}}

\* a write in p's transaction to `key` raises WriteConflict
Conflict(p, key) == key \in proc[p].stale \/ key \in HeldByOthers(p)

\* p's record after buffering op in its transaction
Buffered(p, op, pc2, l2) ==
  [proc[p] EXCEPT !.pc = pc2, !.snap = TRUE, !.ops = Append(@, op), !.l = l2]

\* the documents a handler instance can still write, from what it has read
WillWrite(q) ==
  LET l == proc[q].l
  IN CASE proc[q].h = "reg" ->
            {<<"user", l.parent>>, <<"user", l.referrer>>,
             <<"wallet", l.referrer>>, <<"pin", l.pin>>}
       [] proc[q].h = "adm" -> {<<"req", l.req>>} \cup
            (IF "user" \in DOMAIN l THEN {<<"wallet", l.user>>} ELSE {})
       [] OTHER -> {}

\* the other processes after `keys` were committed (or written directly):
\* an open transaction whose snapshot is older must fail on writing them
Staled(q, keys) ==
  IF proc[q].snap
    THEN [proc[q] EXCEPT !.stale = @ \cup (keys \cap WillWrite(q))]
    ELSE proc[q]

\* handler p answers; an open transaction is aborted (catch block)
Finish(p, r) ==
  /\ proc' = [proc EXCEPT ![p] = Idle]
  /\ resp' = r
  /\ UNCHANGED <<db, committed>>

Step(p, rec) ==
  /\ proc' = [proc EXCEPT ![p] = rec]
  /\ resp' = NoResp
  /\ UNCHANGED <<db, committed>>

\* a write outside any transaction: it waits for the document
DirectWrite(p, op, rec) ==
  /\ KeyOf(op) \notin HeldByOthers(p)
  /\ db' = Apply(db, op)
  /\ proc' = [q \in Procs |-> IF q = p THEN rec ELSE Staled(q, KeysOf(<<op>>))]
  /\ UNCHANGED committed

Init ==
  /\ db = SeedDb
  /\ proc = [p \in Procs |-> Idle]
  /\ resp = NoResp
  /\ committed = {}

(* ------------------------------------------------------------------ *)
(* AuthController.registerUser                                         *)
(* ------------------------------------------------------------------ *)
\* mobile numbers of the request bodies: one already registered or being
\* registered, or the first number nobody has used
FirstNewMobile == 9100

MobileInputs(p) ==
  LET taken == {db.users[u].mobileNumber : u \in DOMAIN db.users} \cup
               {proc[q].l.mobileNumber : q \in {x \in Procs \ {p} : proc[x].h = "reg"}}
      new == {m \in taken : m >= FirstNewMobile}
  IN new \cup {CHOOSE n \in FirstNewMobile..(FirstNewMobile + Cardinality(new)) :
                 n \notin new /\ \A m \in FirstNewMobile..(n - 1) : m \in new}
ReferralCodes == {mobileOf(Root), mobileOf(5), 9999}

\* pin codes of the request bodies: the pin issued last in SeedDb, a used
\* one, an unknown one, and every pin issued after SeedDb
PinInputs == {101, 1, 999} \cup {c \in DOMAIN db.pins : c > 101}

\* a request is served by the first free slot
Free(p) ==
  /\ proc[p].h = "idle"
  /\ \A q \in Procs : proc[q].h = "idle" => ~(q < p)

Err(h, status, msg) == [h |-> h, status |-> status, msg |-> msg]

\* the ObjectId of `new User(...)`: unused, and unlike any in flight
TakenIds(p) ==
  DOMAIN db.users \cup
  {proc[q].l.uid : q \in {x \in Procs \ {p} :
                            proc[x].h = "reg" /\ "uid" \in DOMAIN proc[x].l}}

FreshId(p) ==
  CHOOSE n \in 30..(30 + Cardinality(TakenIds(p))) :
    n \notin TakenIds(p) /\ \A m \in 30..(n - 1) : m \in TakenIds(p)

\* session.startTransaction() and the request body
RegBegin(p, max) ==
  /\ Free(p)
  /\ Cardinality(committed) + Cardinality({q \in Procs : proc[q].h = "reg"}) < max
  /\ \E m \in MobileInputs(p) :
       proc' = [proc EXCEPT ![p] =
                  [h |-> "reg", pc |-> "exists", snap |-> FALSE, ops |-> <<>>,
                   stale |-> {}, l |-> [mobileNumber |-> m]]]
  /\ resp' = NoResp
  /\ UNCHANGED <<db, committed>>

\* User.exists({ $or: [{ mobileNumber }, { email }] })
RegCheckExisting(p) ==
  /\ proc[p].h = "reg" /\ proc[p].pc = "exists"
  /\ IF \E u \in DOMAIN db.users : db.users[u].mobileNumber = proc[p].l.mobileNumber
       THEN Finish(p, Err("reg", 400, "User already exists"))
       ELSE Step(p, [proc[p] EXCEPT !.pc = "referrer"])

\* User.findOne({ referralCode })
RegFindReferrer(p) ==
  /\ proc[p].h = "reg" /\ proc[p].pc = "referrer"
  /\ \E code \in ReferralCodes :
       LET found == {u \in DOMAIN db.users : db.users[u].mobileNumber = code}
       IN IF found = {}
            THEN Finish(p, Err("reg", 400, "Invalid referral code"))
            ELSE Step(p, [proc[p] EXCEPT !.pc = "pin0",
                           !.l = @ @@ [referrer |-> CHOOSE u \in found : TRUE]])

\* variant: the pin is looked up by code alone
pinQueryByCode(d, pin, referrer) ==
  {c \in DOMAIN d.pins : c = pin}

\* the pin query: by code, and by assignedTo unless the referrer is an Admin
pinQuery(d, pin, referrer) ==
  {c \in DOMAIN d.pins :
     /\ c = pin
     /\ d.users[referrer].userType # "Admin" => d.pins[c].assignedTo = referrer}

\* PinManagement.findOne(query) and the pin validation
RegFindPin(p) ==
  /\ proc[p].h = "reg" /\ proc[p].pc = "pin0"
  /\ \E pin \in PinInputs :
       LET found == pinQuery(db, pin, proc[p].l.referrer)
       IN IF found = {} \/ (\E c \in found : db.pins[c].status = "used")
            THEN Finish(p, Err("reg", 400, "Invalid or used pin"))
            ELSE Step(p, [proc[p] EXCEPT !.pc = "children",
                           !.l = @ @@ [pin |-> pin, packageId |-> db.pins[pin].packageId]])

\* variant: the referrer is bypassed from four children on
RegFindChildrenFromFour(p) ==
  /\ proc[p].h = "reg" /\ proc[p].pc = "children"
  /\ LET kids == referrerChildren(db.edges, proc[p].l.referrer)
     IN IF Cardinality(kids) >= 4
          THEN Step(p, [proc[p] EXCEPT !.pc = "eligible", !.l = @ @@ [kids |-> kids]])
          ELSE Step(p, [proc[p] EXCEPT !.pc = "save",
                         !.l = @ @@ [parent |-> proc[p].l.referrer]])

\* getReferralParent: ReferralTracking.find({ referrer })
RegFindChildren(p) ==
  /\ proc[p].h = "reg" /\ proc[p].pc = "children"
  /\ LET kids == referrerChildren(db.edges, proc[p].l.referrer)
     IN IF Cardinality(kids) >= 5
          THEN Step(p, [proc[p] EXCEPT !.pc = "eligible", !.l = @ @@ [kids |-> kids]])
          ELSE Step(p, [proc[p] EXCEPT !.pc = "save",
                         !.l = @ @@ [parent |-> proc[p].l.referrer]])

\* getReferralParent: User.aggregate([...$lookup, $match, $limit 1])
RegFindEligible(p) ==
  /\ proc[p].h = "reg" /\ proc[p].pc = "eligible"
  /\ LET l == proc[p].l
         elig == eligibleChild(DOMAIN db.users, db.edges, l.kids)
     IN \E parent \in (IF elig # {} THEN elig ELSE {l.referrer}) :
          Step(p, [proc[p] EXCEPT !.pc = "save",
                    !.l = [mobileNumber |-> l.mobileNumber, referrer |-> l.referrer,
                           pin |-> l.pin, packageId |-> l.packageId, parent |-> parent]])

\* variant: mobileNumber carries no unique index
RegSaveUserNoIndex(p) ==
  /\ proc[p].h = "reg" /\ proc[p].pc = "save"
  /\ LET l == proc[p].l
         uid == FreshId(p)
     IN Step(p, [proc[p] EXCEPT
                 !.pc = "levels", !.snap = TRUE,
                 !.ops = @ \o <<[k |-> "insUser", id |-> uid, mobileNumber |-> l.mobileNumber],
                                [k |-> "insEdge", referrer |-> l.parent, referred |-> uid]>>,
                 !.l = [mobileNumber |-> l.mobileNumber, referrer |-> l.referrer,
                        pin |-> l.pin, packageId |-> l.packageId,
                        parent |-> l.parent, uid |-> uid]])

\* newUser.save({ session }) and ReferralTracking.create([...], { session })
RegSaveUser(p) ==
  /\ proc[p].h = "reg" /\ proc[p].pc = "save"
  /\ LET l == proc[p].l
         uid == FreshId(p)
         key == <<"mobile", l.mobileNumber>>
         dup == \E u \in DOMAIN db.users : db.users[u].mobileNumber = l.mobileNumber
     IN IF dup \/ Conflict(p, key)
          THEN Finish(p, Err("reg", 400, "E11000 duplicate key"))
          ELSE Step(p, [proc[p] EXCEPT
                 !.pc = "levels", !.snap = TRUE,
                 !.ops = @ \o <<[k |-> "insUser", id |-> uid, mobileNumber |-> l.mobileNumber],
                                [k |-> "insEdge", referrer |-> l.parent, referred |-> uid]>>,
                 !.l = [mobileNumber |-> l.mobileNumber, referrer |-> l.referrer,
                        pin |-> l.pin, packageId |-> l.packageId,
                        parent |-> l.parent, uid |-> uid]])

\* calculateUserLevel(referralParent._id): two countDocuments without the session
RegCalcParentLevel(p) ==
  /\ proc[p].h = "reg" /\ proc[p].pc = "levels"
  /\ Step(p, [proc[p] EXCEPT !.pc = "levels2",
                !.l = @ @@ [updatedLevelParent |-> calculateUserLevel(db.edges, proc[p].l.parent)]])

\* calculateReferreUserLevel(referrer._id): two countDocuments without the session
RegCalcReferrerLevel(p) ==
  /\ proc[p].h = "reg" /\ proc[p].pc = "levels2"
  /\ Step(p, [proc[p] EXCEPT !.pc = "setParent",
                !.l = @ @@ [updatedLevelReferrer |-> calculateReferreUserLevel(db.edges, proc[p].l.referrer)]])

\* User.findByIdAndUpdate(referralParent._id, { $set: { level, rank } }, { session })
RegUpdateParentLevel(p) ==
  /\ proc[p].h = "reg" /\ proc[p].pc = "setParent"
  /\ LET l == proc[p].l
     IN IF Conflict(p, <<"user", l.parent>>)
          THEN Finish(p, Err("reg", 400, "WriteConflict"))
          ELSE Step(p, Buffered(p, [k |-> "setLevel", id |-> l.parent, level |-> l.updatedLevelParent],
                                "setReferrer", l))

\* User.findByIdAndUpdate(referrer._id, { $set: { level, rank } }, { session })
RegUpdateReferrerLevel(p) ==
  /\ proc[p].h = "reg" /\ proc[p].pc = "setReferrer"
  /\ LET l == proc[p].l
     IN IF Conflict(p, <<"user", l.referrer>>)
          THEN Finish(p, Err("reg", 400, "WriteConflict"))
          ELSE Step(p, Buffered(p, [k |-> "setLevel", id |-> l.referrer, level |-> l.updatedLevelReferrer],
                                "findWallet", l))

\* variant: the direct credit is the table entry alone
walletCreditTableOnly(referrerId, referral, pkg, updatedLevelReferral, updatedLevel) ==
  LET income == packageIncome(pkg.productPrice, updatedLevel)
      u == packageIncome(pkg.productPrice, updatedLevelReferral)
      indirectIncome == IF updatedLevel = updatedLevelReferral THEN u ELSE 0
  IN IF referrerId = referral
       THEN [user |-> referrerId, field |-> "directReferralIncome", amount |-> income]
       ELSE [user |-> referral, field |-> "indirectReferralIncome", amount |-> indirectIncome]

\* variant: the spillover credit does not compare the two levels
walletCreditAnyLevel(referrerId, referral, pkg, updatedLevelReferral, updatedLevel) ==
  LET t == packageIncome(pkg.productPrice, updatedLevel)
      income == IF t = NaN THEN NaN ELSE t + pkg.directIncome
      indirectIncome == packageIncome(pkg.productPrice, updatedLevelReferral)
  IN IF referrerId = referral
       THEN [user |-> referrerId, field |-> "directReferralIncome", amount |-> income]
       ELSE [user |-> referral, field |-> "indirectReferralIncome", amount |-> indirectIncome]

\* updateReferrerWallet up to the choice of wallet, bucket and amount
walletCredit(referrerId, referral, pkg, updatedLevelReferral, updatedLevel) ==
  LET t == packageIncome(pkg.productPrice, updatedLevel)
      income == IF t = NaN THEN NaN ELSE t + pkg.directIncome
      u == packageIncome(pkg.productPrice, updatedLevelReferral)
      indirectIncome == IF updatedLevel = updatedLevelReferral THEN u ELSE 0
  IN IF referrerId = referral
       THEN [user |-> referrerId, field |-> "directReferralIncome", amount |-> income]
       ELSE [user |-> referral, field |-> "indirectReferralIncome", amount |-> indirectIncome]

\* PackageModel.findOne({ _id: pinDetails.packageId }) and, inside updateWallet,
\* Wallet.findOne({ user: userId }); neither is given the session
RegFindWallet(p) ==
  /\ proc[p].h = "reg" /\ proc[p].pc = "findWallet"
  /\ LET l == proc[p].l
     IN IF l.packageId \notin DOMAIN Packages
          THEN Finish(p, Err("reg", 400, "Cannot read properties of null"))
          ELSE LET c == walletCredit(l.parent, l.referrer, Packages[l.packageId],
                                     l.updatedLevelReferrer, l.updatedLevelParent)
               IN Step(p, [proc[p] EXCEPT !.pc = "wallet",
                     !.l = @ @@ [credit |-> c, wallet |-> walletIndex(db, c.user) # 0]])

\* variant: the wallet write is issued twice
RegUpdateWalletTwice(p) ==
  /\ proc[p].h = "reg" /\ proc[p].pc = "wallet"
  /\ LET l == proc[p].l
         c == l.credit
         key == <<"wallet", c.user>>
         op == [k |-> IF l.wallet THEN "incWallet" ELSE "insWallet",
                user |-> c.user, field |-> c.field, amount |-> c.amount]
         again == [k |-> "incWallet", user |-> c.user, field |-> c.field, amount |-> c.amount]
     IN IF c.amount = NaN
          THEN Finish(p, Err("reg", 400, "Cast to Number failed"))
          ELSE IF (~l.wallet /\ walletIndex(db, c.user) # 0) \/ Conflict(p, key)
            THEN Finish(p, Err("reg", 400, "WriteConflict"))
            ELSE Step(p, [Buffered(p, op, "pin", l) EXCEPT !.ops = Append(@, again)])

\* newWallet.save({ session }) or Wallet.findOneAndUpdate(..., { $inc }, { session })
RegUpdateWallet(p) ==
  /\ proc[p].h = "reg" /\ proc[p].pc = "wallet"
  /\ LET l == proc[p].l
         c == l.credit
         key == <<"wallet", c.user>>
         op == [k |-> IF l.wallet THEN "incWallet" ELSE "insWallet",
                user |-> c.user, field |-> c.field, amount |-> c.amount]
     IN IF c.amount = NaN
          THEN Finish(p, Err("reg", 400, "Cast to Number failed"))
          ELSE IF (~l.wallet /\ walletIndex(db, c.user) # 0) \/ Conflict(p, key)
            THEN Finish(p, Err("reg", 400, "WriteConflict"))
            ELSE Step(p, Buffered(p, op, "pin", l))

\* variant: the pin update is not given the session
RegUpdatePinNoSession(p) ==
  /\ proc[p].h = "reg" /\ proc[p].pc = "pin"
  /\ DirectWrite(p, [k |-> "usePin", pin |-> proc[p].l.pin],
                 [proc[p] EXCEPT !.pc = "commit"])
  /\ resp' = NoResp

\* PinManagement.updateOne({ _id }, { $set: { status: "used" } }, { session })
RegUpdatePin(p) ==
  /\ proc[p].h = "reg" /\ proc[p].pc = "pin"
  /\ LET l == proc[p].l
     IN IF Conflict(p, <<"pin", l.pin>>)
          THEN Finish(p, Err("reg", 400, "WriteConflict"))
          ELSE Step(p, Buffered(p, [k |-> "usePin", pin |-> l.pin], "commit", l))

\* session.commitTransaction() and the 201 response
RegCommit(p) ==
  /\ proc[p].h = "reg" /\ proc[p].pc = "commit"
  /\ db' = ApplyAll(db, proc[p].ops)
  /\ proc' = [q \in Procs |->
                IF q = p THEN Idle ELSE Staled(q, KeysOf(proc[p].ops))]
  /\ committed' = committed \cup
                    {[uid |-> proc[p].l.uid, pin |-> proc[p].l.pin,
                      parent |-> proc[p].l.parent, referrer |-> proc[p].l.referrer,
                      packageId |-> proc[p].l.packageId,
                      updatedLevelParent |-> proc[p].l.updatedLevelParent,
                      updatedLevelReferrer |-> proc[p].l.updatedLevelReferrer,
                      credit |-> proc[p].l.credit]}
  /\ resp' = Err("reg", 201, "User registered successfully")

RegStart(p) == RegBegin(p, MaxRegs)

RegStartLedger(p) == RegBegin(p, MaxCredits)

RegSteps(p) ==
  \/ RegCheckExisting(p)
  \/ RegFindReferrer(p)
  \/ RegFindPin(p)
  \/ RegFindChildren(p)
  \/ RegFindEligible(p)
  \/ RegSaveUser(p)
  \/ RegCalcParentLevel(p)
  \/ RegCalcReferrerLevel(p)
  \/ RegUpdateParentLevel(p)
  \/ RegUpdateReferrerLevel(p)
  \/ RegFindWallet(p)
  \/ RegUpdateWallet(p)
  \/ RegUpdatePin(p)
  \/ RegCommit(p)

Register(p) == RegStart(p) \/ RegSteps(p)

RegisterLedger(p) == RegStartLedger(p) \/ RegSteps(p)

(* ------------------------------------------------------------------ *)
(* PinController.transferPin (no transaction)                          *)
(* ------------------------------------------------------------------ *)
RecipientInputs == {5, Root, 77}

TransferStart(p) ==
  /\ Free(p)
  /\ proc' = [proc EXCEPT ![p] = [h |-> "xfer", pc |-> "findPin", snap |-> FALSE,
                                   ops |-> <<>>, stale |-> {}, l |-> <<>>]]
  /\ resp' = NoResp
  /\ UNCHANGED <<db, committed>>

\* variant: only a used pin is refused
TransferFindPinNotUsed(p) ==
  /\ proc[p].h = "xfer" /\ proc[p].pc = "findPin"
  /\ \E pin \in PinInputs :
       IF pin \notin DOMAIN db.pins
         THEN Finish(p, Err("xfer", 404, "Pin not found"))
         ELSE IF db.pins[pin].status = "used"
           THEN Finish(p, Err("xfer", 400, "Pin is already used or transferred"))
           ELSE Step(p, [proc[p] EXCEPT !.pc = "findUser",
                          !.l = [pin |-> pin, generatedBy |-> db.pins[pin].generatedBy]])

\* PinManagement.findOne({ pinCode: pin }) and the status check
TransferFindPin(p) ==
  /\ proc[p].h = "xfer" /\ proc[p].pc = "findPin"
  /\ \E pin \in PinInputs :
       IF pin \notin DOMAIN db.pins
         THEN Finish(p, Err("xfer", 404, "Pin not found"))
         ELSE IF db.pins[pin].status \in {"used", "transferred"}
           THEN Finish(p, Err("xfer", 400, "Pin is already used or transferred"))
           ELSE Step(p, [proc[p] EXCEPT !.pc = "findUser",
                          !.l = [pin |-> pin, generatedBy |-> db.pins[pin].generatedBy]])

\* User.findById(userId) and the userType check
TransferFindUser(p) ==
  /\ proc[p].h = "xfer" /\ proc[p].pc = "findUser"
  /\ \E userId \in RecipientInputs :
       IF userId \notin DOMAIN db.users
         THEN Finish(p, Err("xfer", 404, "User not found"))
         ELSE IF db.users[userId].userType # "User"
           THEN Finish(p, Err("xfer", 400, "User is not eligible to receive pin"))
           ELSE Step(p, [proc[p] EXCEPT !.pc = "savePin", !.l = @ @@ [userId |-> userId]])

\* pinRecord.assignedTo = userId; pinRecord.status = "transferred"; pinRecord.save()
TransferSavePin(p) ==
  /\ proc[p].h = "xfer" /\ proc[p].pc = "savePin"
  /\ DirectWrite(p, [k |-> "savePin", pin |-> proc[p].l.pin, status |-> "transferred",
                      assignedTo |-> proc[p].l.userId],
                  [proc[p] EXCEPT !.pc = "saveHistory"])
  /\ resp' = NoResp

\* transferHistory.save()
TransferSaveHistory(p) ==
  /\ proc[p].h = "xfer" /\ proc[p].pc = "saveHistory"
  /\ DirectWrite(p, [k |-> "insHistory",
                      doc |-> [pin |-> proc[p].l.pin, fromUser |-> proc[p].l.generatedBy,
                               toUser |-> proc[p].l.userId]],
                  [proc[p] EXCEPT !.pc = "saveUser"])
  /\ resp' = NoResp

\* user.validTill = ...; user.save(); and the 200 response
TransferSaveUser(p) ==
  /\ proc[p].h = "xfer" /\ proc[p].pc = "saveUser"
  /\ DirectWrite(p, [k |-> "setLevel", id |-> proc[p].l.userId,
                      level |-> db.users[proc[p].l.userId].level],
                  Idle)
  /\ resp' = Err("xfer", 200, "Pin transferred successfully")

TransferPin(p) ==
  \/ TransferStart(p)
  \/ TransferFindPin(p)
  \/ TransferFindUser(p)
  \/ TransferSavePin(p)
  \/ TransferSaveHistory(p)
  \/ TransferSaveUser(p)

\* one of the saves of transferPin rejects: the catch block answers 500
TransferSaveFails(p) ==
  /\ proc[p].h = "xfer" /\ proc[p].pc \in {"savePin", "saveHistory", "saveUser"}
  /\ Finish(p, Err("xfer", 500, "An error occurred while transferring the pin"))

(* ------------------------------------------------------------------ *)
(* PinController.generatePinAndSave (no transaction)                   *)
(* ------------------------------------------------------------------ *)
MaxPins == 1

PackageInputs == {1, 9}

\* the code generatePIN() returns: one no stored pin carries
FreshPin == CHOOSE n \in 102..(102 + Cardinality(DOMAIN db.pins)) :
              n \notin DOMAIN db.pins /\ \A m \in 102..(n - 1) : m \in DOMAIN db.pins

GenerateStart(p) ==
  /\ Free(p)
  /\ Cardinality({c \in DOMAIN db.pins : c > 101})
       + Cardinality({q \in Procs : proc[q].h = "gen"}) < MaxPins
  /\ proc' = [proc EXCEPT ![p] = [h |-> "gen", pc |-> "findUser", snap |-> FALSE,
                                   ops |-> <<>>, stale |-> {}, l |-> [pin |-> Nil]]]
  /\ resp' = NoResp
  /\ UNCHANGED <<db, committed>>

\* User.findById(userId) and the admin check
GenerateFindUser(p) ==
  /\ proc[p].h = "gen" /\ proc[p].pc = "findUser"
  /\ \E userId \in RecipientInputs :
       IF userId \notin DOMAIN db.users
         THEN Finish(p, Err("gen", 400, "User Not Found"))
         ELSE IF db.users[userId].userType # "Admin"
           THEN Finish(p, Err("gen", 400, "User is not an admin"))
           ELSE Step(p, [proc[p] EXCEPT !.pc = "findPackage",
                          !.l = [pin |-> Nil, userId |-> userId]])

\* PackageModel.findById(packageId)
GenerateFindPackage(p) ==
  /\ proc[p].h = "gen" /\ proc[p].pc = "findPackage"
  /\ \E packageId \in PackageInputs :
       IF packageId \notin DOMAIN Packages
         THEN Finish(p, Err("gen", 400, "Invalid Package ID"))
         ELSE Step(p, [proc[p] EXCEPT !.pc = "savePin",
                        !.l = @ @@ [packageId |-> packageId]])

\* generatePIN(), new PinManagement({...}) and pinManagement.save()
GenerateSavePin(p) ==
  /\ proc[p].h = "gen" /\ proc[p].pc = "savePin"
  /\ DirectWrite(p, [k |-> "insPin", pin |-> FreshPin, generatedBy |-> proc[p].l.userId,
                      packageId |-> proc[p].l.packageId],
                  [proc[p] EXCEPT !.pc = "saveUser", !.l.pin = FreshPin])
  /\ resp' = NoResp

\* user.validTill = ...; user.save(); and the 200 response
GenerateSaveUser(p) ==
  /\ proc[p].h = "gen" /\ proc[p].pc = "saveUser"
  /\ DirectWrite(p, [k |-> "setLevel", id |-> proc[p].l.userId,
                      level |-> db.users[proc[p].l.userId].level],
                  Idle)
  /\ resp' = Err("gen", 200, "PIN generated and saved successfully")

\* one of the saves of generatePinAndSave rejects: the catch block answers 500
GenerateSaveFails(p) ==
  /\ proc[p].h = "gen" /\ proc[p].pc \in {"savePin", "saveUser"}
  /\ Finish(p, Err("gen", 500, "Something Went Wrong"))

generatePinAndSave(p) ==
  \/ GenerateStart(p)
  \/ GenerateFindUser(p)
  \/ GenerateFindPackage(p)
  \/ GenerateSavePin(p)
  \/ GenerateSaveUser(p)
  \/ GenerateSaveFails(p)

\* pin administration, with saves that may reject
NextPins ==
  \E p \in Procs :
    \/ generatePinAndSave(p)
    \/ TransferPin(p)
    \/ TransferSaveFails(p)

SpecPins == Init /\ [][NextPins]_vars

(* ------------------------------------------------------------------ *)
(* WithDrawController                                                  *)
(* ------------------------------------------------------------------ *)
WithdrawUsers == {Root, 5}
Amounts == {50000}
RequestInputs == 0..MaxReqs

MinimumBalance == 10000

\* variant: the deduction is a tenth of the amount
newWithdrawalRequestTenth(userId, amountRequested) ==
  LET deductionAmount == amountRequested \div 10
  IN [user |-> userId,
      amountRequested |-> amountRequested,
      deductionAmount |-> deductionAmount,
      netAmount |-> amountRequested - deductionAmount,
      status |-> "pending"]

\* deductionAmount = amountRequested * 0.08, netAmount, and the schema's
\* default status
newWithdrawalRequest(userId, amountRequested) ==
  LET deductionAmount == (amountRequested * 8) \div 100
  IN [user |-> userId,
      amountRequested |-> amountRequested,
      deductionAmount |-> deductionAmount,
      netAmount |-> amountRequested - deductionAmount,
      status |-> "pending"]

\* variant: a missing wallet is created empty instead of being an error
createRequestForUpsert(p, users, amounts) ==
  /\ Free(p)
  /\ Len(db.reqs) < MaxReqs
  /\ \E userId \in users, amountRequested \in amounts :
       LET i == walletIndex(db, userId)
       IN IF i = 0
            THEN /\ db' = Apply(db, [k |-> "insWallet", user |-> userId,
                                     field |-> "directReferralIncome", amount |-> 0])
                 /\ resp' = Err("create", 500, "Minimum balance of 100 required for withdrawal")
            ELSE IF db.wallets[i].directReferralIncome + db.wallets[i].indirectReferralIncome
                      < MinimumBalance
              THEN resp' = Err("create", 500, "Minimum balance of 100 required for withdrawal")
                   /\ UNCHANGED db
              ELSE /\ db' = Apply(db, [k |-> "insReq",
                                       doc |-> newWithdrawalRequest(userId, amountRequested)])
                   /\ resp' = Err("create", 201, "Withdrawal request created successfully")
  /\ UNCHANGED <<proc, committed>>

\* the whole handler: its one read is in its own session and its one write
\* inserts a fresh document, so its steps commute with every other process
createRequestFor(p, users, amounts) ==
  /\ Free(p)
  /\ Len(db.reqs) < MaxReqs
  /\ \E userId \in users, amountRequested \in amounts :
       LET i == walletIndex(db, userId)
       IN IF i = 0
            THEN resp' = Err("create", 500, "Wallet not found") /\ UNCHANGED db
            ELSE IF db.wallets[i].directReferralIncome + db.wallets[i].indirectReferralIncome
                      < MinimumBalance
              THEN resp' = Err("create", 500, "Minimum balance of 100 required for withdrawal")
                   /\ UNCHANGED db
              ELSE /\ db' = Apply(db, [k |-> "insReq",
                                       doc |-> newWithdrawalRequest(userId, amountRequested)])
                   /\ resp' = Err("create", 201, "Withdrawal request created successfully")
  /\ UNCHANGED <<proc, committed>>

createWithdrawalRequest(p) == createRequestFor(p, WithdrawUsers, Amounts)

\* variant: what the direct bucket cannot cover is not taken at all
debitDirectOnly(direct, indirect, totalDeductionAmount) ==
  IF direct >= totalDeductionAmount
    THEN [direct |-> direct - totalDeductionAmount, indirect |-> indirect, both |-> FALSE]
    ELSE [direct |-> 0, indirect |-> indirect, both |-> TRUE]

\* the approval's arithmetic on the wallet it read
debit(direct, indirect, totalDeductionAmount) ==
  IF direct >= totalDeductionAmount
    THEN [direct |-> direct - totalDeductionAmount, indirect |-> indirect, both |-> FALSE]
    ELSE [direct |-> 0, indirect |-> indirect - (totalDeductionAmount - direct), both |-> TRUE]

\* variant: the caller's role is not checked
DecideStartAnyCaller(p) ==
  /\ Free(p)
  /\ \E userType \in {"Admin", "User"} :
       /\ proc' = [proc EXCEPT ![p] = [h |-> "adm", pc |-> "findReq", snap |-> FALSE,
                                        ops |-> <<>>, stale |-> {},
                                        l |-> [userType |-> userType]]]
       /\ resp' = NoResp
  /\ UNCHANGED <<db, committed>>

\* mongoose.startSession() and the role check on req.user.userType, made
\* before the request id and the target status are looked at
DecideStart(p) ==
  /\ Free(p)
  /\ \E userType \in {"Admin", "User"} :
       IF userType # "Admin"
         THEN proc' = proc /\ resp' = Err("adm", 403, "You do not have permission")
         ELSE /\ proc' = [proc EXCEPT ![p] = [h |-> "adm", pc |-> "findReq", snap |-> FALSE,
                                               ops |-> <<>>, stale |-> {},
                                               l |-> [userType |-> userType]]]
              /\ resp' = NoResp
  /\ UNCHANGED <<db, committed>>

\* variant: a denial goes through the wallet deduction as well
DecideFindRequestDebitAlways(p) ==
  /\ proc[p].h = "adm" /\ proc[p].pc = "findReq"
  /\ \E r \in RequestInputs, status \in {"approved", "denied", "other"} :
       IF r \notin 1..Len(db.reqs)
         THEN Finish(p, Err("adm", 500, "Withdrawal request not found"))
         ELSE IF status = "other"
           THEN Finish(p, Err("adm", 400, "Invalid status provided"))
           ELSE Step(p, [proc[p] EXCEPT
                  !.pc = "findWallet",
                  !.l = [req |-> r, status |-> status, user |-> db.reqs[r].user,
                         amountRequested |-> db.reqs[r].amountRequested]])

\* WithdrawalRequest.findById(id).populate("user"), then the dispatch on status
DecideFindRequest(p) ==
  /\ proc[p].h = "adm" /\ proc[p].pc = "findReq"
  /\ \E r \in RequestInputs, status \in {"approved", "denied", "other"} :
       IF r \notin 1..Len(db.reqs)
         THEN Finish(p, Err("adm", 500, "Withdrawal request not found"))
         ELSE IF status = "other"
           THEN Finish(p, Err("adm", 400, "Invalid status provided"))
           ELSE Step(p, [proc[p] EXCEPT
                  !.pc = IF status = "approved" THEN "findWallet" ELSE "saveReq",
                  !.l = [req |-> r, status |-> status, user |-> db.reqs[r].user,
                         amountRequested |-> db.reqs[r].amountRequested]])

\* variant: the approval does not compare the balance with the amount
DecideFindWalletUnchecked(p) ==
  /\ proc[p].h = "adm" /\ proc[p].pc = "findWallet"
  /\ LET l == proc[p].l
         i == walletIndex(db, l.user)
     IN IF i = 0
          THEN Finish(p, Err("adm", 500, "User wallet not found"))
          ELSE Step(p, [proc[p] EXCEPT !.pc = "saveWallet", !.snap = TRUE,
                 !.l = @ @@ [wallet |-> debit(db.wallets[i].directReferralIncome,
                                              db.wallets[i].indirectReferralIncome,
                                              l.amountRequested)]])

\* Wallet.findOne({ user }).session(session), the funds check and the debit
DecideFindWallet(p) ==
  /\ proc[p].h = "adm" /\ proc[p].pc = "findWallet"
  /\ LET l == proc[p].l
         i == walletIndex(db, l.user)
     IN IF i = 0
          THEN Finish(p, Err("adm", 500, "User wallet not found"))
          ELSE IF db.wallets[i].directReferralIncome + db.wallets[i].indirectReferralIncome
                    < l.amountRequested
            THEN Finish(p, Err("adm", 500, "Insufficient funds in wallet"))
            ELSE Step(p, [proc[p] EXCEPT !.pc = "saveWallet", !.snap = TRUE,
                   !.l = @ @@ [wallet |-> debit(db.wallets[i].directReferralIncome,
                                                db.wallets[i].indirectReferralIncome,
                                                l.amountRequested)]])

\* variant: the wallet is saved whatever was committed since it was read
DecideSaveWalletNoConflict(p) ==
  /\ proc[p].h = "adm" /\ proc[p].pc = "saveWallet"
  /\ LET l == proc[p].l
     IN Step(p, [proc[p] EXCEPT
                   !.pc = "saveReq",
                   !.ops = Append(@, [k |-> "saveWallet", user |-> l.user,
                                      direct |-> l.wallet.direct,
                                      indirect |-> l.wallet.indirect,
                                      both |-> l.wallet.both]),
                   !.l = [req |-> l.req, status |-> l.status]])

\* wallet.save({ session })
DecideSaveWallet(p) ==
  /\ proc[p].h = "adm" /\ proc[p].pc = "saveWallet"
  /\ LET l == proc[p].l
     IN IF Conflict(p, <<"wallet", l.user>>)
          THEN Finish(p, Err("adm", 500, "WriteConflict"))
          ELSE Step(p, Buffered(p, [k |-> "saveWallet", user |-> l.user,
                                    direct |-> l.wallet.direct, indirect |-> l.wallet.indirect,
                                    both |-> l.wallet.both],
                                "saveReq", [req |-> l.req, status |-> l.status]))

\* withdrawalRequest.status = status; withdrawalRequest.save({ session })
DecideSaveRequest(p) ==
  /\ proc[p].h = "adm" /\ proc[p].pc = "saveReq"
  /\ LET l == proc[p].l
     IN IF Conflict(p, <<"req", l.req>>)
          THEN Finish(p, Err("adm", 500, "WriteConflict"))
          ELSE Step(p, Buffered(p, [k |-> "saveReq", req |-> l.req, status |-> l.status],
                                "commit", [req |-> l.req, status |-> l.status]))

\* session.commitTransaction() and the 200 response
DecideCommit(p) ==
  /\ proc[p].h = "adm" /\ proc[p].pc = "commit"
  /\ db' = ApplyAll(db, proc[p].ops)
  /\ proc' = [q \in Procs |->
                IF q = p THEN Idle ELSE Staled(q, KeysOf(proc[p].ops))]
  /\ resp' = Err("adm", 200, proc[p].l.status)
  /\ UNCHANGED committed

approveOrDenyWithdrawal(p) ==
  \/ DecideStart(p)
  \/ DecideFindRequest(p)
  \/ DecideFindWallet(p)
  \/ DecideSaveWallet(p)
  \/ DecideSaveRequest(p)
  \/ DecideCommit(p)

\* onboarding: registrations and pin transfers
Next ==
  \E p \in Procs :
    \/ Register(p)
    \/ TransferPin(p)

Spec == Init /\ [][Next]_vars

\* the ledger: registrations, withdrawal requests and the admin's decisions
NextLedger ==
  \E p \in Procs :
    \/ RegisterLedger(p)
    \/ createWithdrawalRequest(p)
    \/ approveOrDenyWithdrawal(p)

SpecLedger == Init /\ [][NextLedger]_vars

(* ------------------------------------------------------------------ *)
(* getReferralParent on the referral trees registrations produce       *)
(* ------------------------------------------------------------------ *)
MaxKids == 6

ChildCounts == {0, 4, 5, 6}

\* Trees of depth two that registerUser builds: a child receives up to five
\* members as their referrer and a sixth only by spillover from a referrer
\* with five children; the referrer receives a child beyond the fifth only
\* when getReferralParent found no child to spill to.
Producible(k, f) ==
  /\ k <= 4 => \A c \in 1..k : f[c] <= 5
  /\ \A c \in 6..k : \A b \in 1..(c - 1) : f[b] = 6

PlaceEdges(k, f) ==
  {<<Root, c>> : c \in 1..k} \cup
  UNION {{<<c, 10 * c + j>> : j \in 1..f[c]} : c \in 1..k}

PlaceDb(k, f) ==
  LET edges == PlaceEdges(k, f)
      ids == {Root} \cup {e[2] : e \in edges}
  IN [SeedDb EXCEPT
        !.users = [id \in ids |->
                     [mobileNumber |-> mobileOf(id),
                      userType |-> IF id = Root THEN "Admin" ELSE "User",
                      level |-> IF \E e \in edges : e[1] = id THEN 1 ELSE 0]],
        !.edges = edges]

\* a registration that presented the administrator's referral code and a
\* valid pin, about to call getReferralParent(referrer)
InitPlace ==
  /\ \E k \in 0..MaxKids : \E f \in [1..k -> ChildCounts] :
       /\ Producible(k, f)
       /\ db = PlaceDb(k, f)
  /\ proc = [p \in Procs |->
               IF p = 1
                 THEN [h |-> "reg", pc |-> "children", snap |-> FALSE, ops |-> <<>>,
                       stale |-> {},
                       l |-> [mobileNumber |-> FirstNewMobile, referrer |-> Root,
                              pin |-> 101, packageId |-> 1]]
                 ELSE Idle]
  /\ resp = NoResp
  /\ committed = {}

NextPlace ==
  \E p \in Procs :
    \/ RegFindChildren(p)
    \/ RegFindEligible(p)

SpecPlace == InitPlace /\ [][NextPlace]_vars

(* ------------------------------------------------------------------ *)
(* updateReferrerWallet on drawn arguments                             *)
(* ------------------------------------------------------------------ *)
\* the values calculateUserLevel returns
Levels == 1..10

\* Pin 102 of package pk was issued and transferred to member 5; when
\* `earlier`, member 5 has already referred member 30 with pin 101.
CreditDb(pk, earlier) ==
  LET d0 == [SeedDb EXCEPT !.pins = @ @@
               (102 :> [status |-> "transferred", assignedTo |-> 5,
                        generatedBy |-> Root, packageId |-> pk])]
  IN IF earlier
       THEN ApplyAll(d0,
              <<[k |-> "savePin", pin |-> 101, status |-> "transferred", assignedTo |-> 5],
                [k |-> "insUser", id |-> 30, mobileNumber |-> FirstNewMobile],
                [k |-> "insEdge", referrer |-> 5, referred |-> 30],
                [k |-> "setLevel", id |-> 5, level |-> 1],
                [k |-> "insWallet", user |-> 5, field |-> "directReferralIncome",
                 amount |-> 1000],
                [k |-> "usePin", pin |-> 101]>>)
       ELSE d0

\* a registration placed under member 5, referred by member 5 or spilled
\* from the administrator, about to call updateReferrerWallet with the
\* levels it computed
InitCredit ==
  \E pk \in DOMAIN Packages, earlier \in BOOLEAN, referrer \in {Root, 5},
     updatedLevel \in Levels, updatedLevelReferral \in Levels :
    LET uid == IF earlier THEN 31 ELSE 30
        mobileNumber == FirstNewMobile + (IF earlier THEN 1 ELSE 0)
    IN /\ db = CreditDb(pk, earlier)
       /\ proc = [p \in Procs |->
                    IF p = 1
                      THEN [h |-> "reg", pc |-> "findWallet", snap |-> TRUE,
                            ops |-> <<[k |-> "insUser", id |-> uid, mobileNumber |-> mobileNumber],
                                      [k |-> "insEdge", referrer |-> 5, referred |-> uid],
                                      [k |-> "setLevel", id |-> 5, level |-> updatedLevel],
                                      [k |-> "setLevel", id |-> referrer,
                                       level |-> updatedLevelReferral]>>,
                            stale |-> {},
                            l |-> [mobileNumber |-> mobileNumber, referrer |-> referrer,
                                   pin |-> 102, packageId |-> pk, parent |-> 5, uid |-> uid,
                                   updatedLevelParent |-> updatedLevel,
                                   updatedLevelReferrer |-> updatedLevelReferral]]
                      ELSE Idle]
       /\ resp = NoResp
       /\ committed = {}

NextCredit ==
  \E p \in Procs :
    \/ RegFindWallet(p)
    \/ RegUpdateWallet(p)
    \/ RegUpdatePin(p)
    \/ RegCommit(p)

SpecCredit == InitCredit /\ [][NextCredit]_vars

(* ------------------------------------------------------------------ *)
(* Concurrent registrations with several pins in circulation           *)
(* ------------------------------------------------------------------ *)
\* SeedDb after pin 102 of package 2 and pin 103 of package 1 were issued
\* and transferred to member 5, who has no wallet yet
PairDb ==
  [SeedDb EXCEPT
     !.pins = @ @@ (102 :> [status |-> "transferred", assignedTo |-> 5,
                            generatedBy |-> Root, packageId |-> 2])
                @@ (103 :> [status |-> "transferred", assignedTo |-> 5,
                            generatedBy |-> Root, packageId |-> 1]),
     !.history = <<[pin |-> 102, fromUser |-> Root, toUser |-> 5],
                   [pin |-> 103, fromUser |-> Root, toUser |-> 5]>>]

InitPair ==
  /\ db = PairDb
  /\ proc = [p \in Procs |-> Idle]
  /\ resp = NoResp
  /\ committed = {}

NextPair == \E p \in Procs : Register(p)

SpecPair == InitPair /\ [][NextPair]_vars

(* ------------------------------------------------------------------ *)
(* Properties                                                          *)
(* ------------------------------------------------------------------ *)
bucketOf(d, user, field) ==
  LET i == walletIndex(d, user)
  IN IF i = 0 THEN 0
     ELSE IF field = "directReferralIncome"
       THEN d.wallets[i].directReferralIncome
       ELSE d.wallets[i].indirectReferralIncome

childCount(d, u) == Cardinality(referrerChildren(d.edges, u))

\* C1: of the registrations that commit, no two were made with the same pin
\* code: two registerUser requests presenting one pin never both create a
\* member, an edge and a wallet credit.
PinConsumedExactlyOnce ==
  \A c1, c2 \in committed : c1.pin = c2.pin => c1 = c2

\* C2: registration is all-or-nothing.  A registerUser that answers with an
\* error leaves the stored data as it is, no step before the commit makes
\* any of its writes visible, and the commit answers 201 and makes the new
\* member, the one new edge, the level updates, the wallet credit and the
\* used pin appear together.
RegistrationAllOrNothing ==
  [][/\ (resp'.h = "reg" /\ resp'.status # 201) => db' = db
     /\ \A p \in Procs :
          (proc[p].h = "reg" /\ proc'[p].h = "reg" /\ proc'[p].pc # proc[p].pc)
            => db' = db
     /\ \A p \in Procs :
          (proc[p].h = "reg" /\ proc[p].pc = "commit" /\ proc'[p].h = "idle") =>
            LET l == proc[p].l
                c == l.credit
            IN /\ resp'.h = "reg" /\ resp'.status = 201
               /\ l.uid \notin DOMAIN db.users
               /\ DOMAIN db'.users = DOMAIN db.users \cup {l.uid}
               /\ db'.users[l.uid].mobileNumber = l.mobileNumber
               /\ <<l.parent, l.uid>> \notin db.edges
               /\ db'.edges = db.edges \cup {<<l.parent, l.uid>>}
               /\ db'.users[l.referrer].level = l.updatedLevelReferrer
               /\ l.parent # l.referrer => db'.users[l.parent].level = l.updatedLevelParent
               /\ walletIndex(db', c.user) # 0
               /\ bucketOf(db', c.user, c.field) = bucketOf(db, c.user, c.field) + c.amount
               /\ db'.pins[l.pin].status = "used"
    ]_vars

\* a registration failed on a write after it had buffered its member and
\* edge, and another one committed
AbortedAfterWrites ==
  /\ resp.h = "reg" /\ resp.status = 400 /\ resp.msg = "WriteConflict"
  /\ committed # {}

\* C3: approving a request that is already approved fails and debits
\* nothing: the decision that ends such an approval answers with an error
\* and leaves the wallet and the request as they are.
ReapprovalDebitsNothing ==
  [][\A p \in Procs :
       (/\ proc[p].h = "adm" /\ proc[p].pc = "commit" /\ proc'[p].h = "idle"
        /\ proc[p].l.status = "approved"
        /\ db.reqs[proc[p].l.req].status = "approved")
         => (resp'.status # 200 /\ db'.wallets = db.wallets /\ db'.reqs = db.reqs)
    ]_vars

\* C4: a withdrawal request changes status at most once and only from
\* pending: an approved request stays approved and a denied one stays denied.
RequestStatusTerminal ==
  [][\A r \in 1..Len(db.reqs) :
       db.reqs[r].status # "pending" => db'.reqs[r].status = db.reqs[r].status
    ]_vars

\* C5: in every reachable state every wallet's direct income and indirect
\* income are each at least zero.
WalletsNeverNegative ==
  \A i \in 1..Len(db.wallets) :
    /\ db.wallets[i].directReferralIncome >= 0
    /\ db.wallets[i].indirectReferralIncome >= 0

\* the administrator's wallet after a registration credited its indirect
\* bucket and approvals emptied its direct bucket and went on into the
\* indirect one
DebitedIntoIndirect ==
  /\ committed # {}
  /\ \E r \in 1..Len(db.reqs) : db.reqs[r].status = "approved"
  /\ bucketOf(db, Root, "directReferralIncome") = 0
  /\ bucketOf(db, Root, "indirectReferralIncome") = 4000

\* C6: a pin's status never moves backward: once used it stays used, and
\* once transferred it is never available again.
PinStatusMonotonic ==
  [][\A c \in DOMAIN db.pins :
       /\ db.pins[c].status = "used" => db'.pins[c].status = "used"
       /\ db.pins[c].status = "transferred" => db'.pins[c].status # "available"
    ]_vars

\* C7: when the referrer has 0 to 4 direct children as getReferralParent
\* runs, the placement parent it returns is the referrer.
FewChildrenPlaceUnderReferrer ==
  [][\A p \in Procs :
       (/\ proc[p].h = "reg" /\ proc[p].pc = "children" /\ proc'[p].pc # "children"
        /\ childCount(db, proc[p].l.referrer) <= 4)
         => (proc'[p].pc = "save" /\ proc'[p].l.parent = proc[p].l.referrer)
    ]_vars

\* a referrer with four children, one of them without children of its own,
\* was returned as the placement parent
PlacedUnderReferrerOfFour ==
  /\ proc[1].h = "reg" /\ proc[1].pc = "save"
  /\ childCount(db, Root) = 4
  /\ \E c \in referrerChildren(db.edges, Root) : childCount(db, c) = 0
  /\ proc[1].l.parent = Root

\* C8: when the referrer has 5 or more direct children and at least one of
\* them has fewer than 5 children of its own, the placement parent is a
\* child of the referrer with fewer than 5 children.
SpillsToChildBelowFive ==
  [][\A p \in Procs :
       (/\ proc[p].h = "reg" /\ proc[p].pc = "eligible" /\ proc'[p].pc = "save"
        /\ childCount(db, proc[p].l.referrer) >= 5
        /\ \E c \in referrerChildren(db.edges, proc[p].l.referrer) : childCount(db, c) < 5)
         => (/\ proc'[p].l.parent \in referrerChildren(db.edges, proc[p].l.referrer)
             /\ proc'[p].l.parent # proc[p].l.referrer
             /\ childCount(db, proc'[p].l.parent) < 5)
    ]_vars

\* C9: when the referrer has 5 or more direct children and each of them has
\* 5 or more children of its own, the placement parent is the referrer.
SaturatedFallsBackToReferrer ==
  [][\A p \in Procs :
       (/\ proc[p].h = "reg" /\ proc[p].pc = "eligible" /\ proc'[p].pc = "save"
        /\ childCount(db, proc[p].l.referrer) >= 5
        /\ \A c \in referrerChildren(db.edges, proc[p].l.referrer) : childCount(db, c) >= 5)
         => proc'[p].l.parent = proc[p].l.referrer
    ]_vars

\* C10: when a registration commits with the referrer as placement parent,
\* the referrer's direct income grows by the table entry of the package
\* price at the parent's level (the default entry from level 10 on) plus the
\* package's base direct income, on top of the previous balance; its
\* indirect income and every other wallet stay as they are.
DirectCreditExact ==
  [][\A p \in Procs :
       (/\ proc[p].h = "reg" /\ proc[p].pc = "commit" /\ proc'[p].h = "idle"
        /\ proc[p].l.parent = proc[p].l.referrer)
         => LET l == proc[p].l
                pkg == Packages[l.packageId]
                table == levelIncomeMap(pkg.productPrice)
                entry == IF l.updatedLevelParent >= 10
                           THEN table.default
                           ELSE table.byLevel[l.updatedLevelParent]
                had == walletIndex(db, l.referrer) # 0
            IN /\ walletIndex(db', l.referrer) # 0
               /\ bucketOf(db', l.referrer, "directReferralIncome") =
                    bucketOf(db, l.referrer, "directReferralIncome") + entry + pkg.directIncome
               /\ bucketOf(db', l.referrer, "indirectReferralIncome") =
                    bucketOf(db, l.referrer, "indirectReferralIncome")
               /\ Len(db'.wallets) = Len(db.wallets) + (IF had THEN 0 ELSE 1)
               /\ \A i \in 1..Len(db.wallets) :
                    db.wallets[i].user # l.referrer => db'.wallets[i] = db.wallets[i]
    ]_vars

\* member 5, holding 10.00 of direct income, referred a member of the
\* 1300 package at level 10 and was credited 2 + 36 on top
CreditedAtLevelTen ==
  /\ resp.h = "reg" /\ resp.status = 201
  /\ \E c \in committed :
       /\ c.parent = 5 /\ c.referrer = 5
       /\ c.updatedLevelParent = 10 /\ c.packageId = 2
  /\ bucketOf(db, 5, "directReferralIncome") = 4800
  /\ bucketOf(db, Root, "directReferralIncome") = 50000

\* the bonus table's entry for a package price at a level
tableEntry(price, level) ==
  IF level >= 10 THEN levelIncomeMap(price).default
  ELSE levelIncomeMap(price).byLevel[level]

\* C11: when a registration commits with spillover (the placement parent is
\* not the referrer), the referrer's indirect income grows by the table
\* entry of the package price at the referrer's level when that level equals
\* the parent's level and by zero otherwise, and the referrer's direct
\* income stays as it is.
SpilloverIndirectCredit ==
  [][\A p \in Procs :
       (/\ proc[p].h = "reg" /\ proc[p].pc = "commit" /\ proc'[p].h = "idle"
        /\ proc[p].l.parent # proc[p].l.referrer)
         => LET l == proc[p].l
                pkg == Packages[l.packageId]
                due == IF l.updatedLevelReferrer = l.updatedLevelParent
                         THEN tableEntry(pkg.productPrice, l.updatedLevelReferrer)
                         ELSE 0
            IN /\ bucketOf(db', l.referrer, "indirectReferralIncome") =
                    bucketOf(db, l.referrer, "indirectReferralIncome") + due
               /\ bucketOf(db', l.referrer, "directReferralIncome") =
                    bucketOf(db, l.referrer, "directReferralIncome")
    ]_vars

\* a member of the 1300 package spilled from the administrator to member 5,
\* both at level 3: the administrator's indirect income grew by 34
SpilledAtEqualLevels ==
  /\ resp.h = "reg" /\ resp.status = 201
  /\ \E c \in committed :
       /\ c.parent = 5 /\ c.referrer = Root /\ c.packageId = 2
       /\ c.updatedLevelParent = 3 /\ c.updatedLevelReferrer = 3
  /\ bucketOf(db, Root, "indirectReferralIncome") = 153600 + 3400
  /\ bucketOf(db, Root, "directReferralIncome") = 50000

\* C12: every committed registration credits direct income to its placement
\* parent: the parent's direct income grows by the table entry at the
\* parent's level plus the package's base direct income, whether or not the
\* parent is the member whose referral code was used.
ParentAlwaysCredited ==
  [][\A p \in Procs :
       (proc[p].h = "reg" /\ proc[p].pc = "commit" /\ proc'[p].h = "idle")
         => LET l == proc[p].l
                pkg == Packages[l.packageId]
            IN bucketOf(db', l.parent, "directReferralIncome") =
                 bucketOf(db, l.parent, "directReferralIncome")
                 + tableEntry(pkg.productPrice, l.updatedLevelParent) + pkg.directIncome
    ]_vars

(* ------------------------------------------------------------------ *)
(* Registration under a referrer near the first level threshold        *)
(* ------------------------------------------------------------------ *)
MaxWide == 24

\* The administrator's tree after registrations that all used the
\* administrator's referral code and pins of package 2: n children, each
\* but the last with six children of its own (five attached, then spillover
\* until no child has room, then the fallback to the referrer), the last
\* with j.
WideEdges(n, j) ==
  {<<Root, c>> : c \in 1..n} \cup
  UNION {{<<c, 1000 * c + i>> : i \in 1..(IF c < n THEN 6 ELSE j)} : c \in 1..n}

WideDb(n, j) ==
  LET edges == WideEdges(n, j)
      ids == {Root} \cup {e[2] : e \in edges}
  IN [users |-> [id \in ids |->
                   [mobileNumber |-> mobileOf(id),
                    userType |-> IF id = Root THEN "Admin" ELSE "User",
                    level |-> IF id = Root
                                THEN computeLevel(IF j = 0 THEN n - 1 ELSE n)
                                ELSE IF \E e \in edges : e[1] = id THEN 1 ELSE 0]],
      edges |-> edges,
      pins |-> [c \in (ids \ {Root}) \cup {101} |->
                  [status |-> IF c = 101 THEN "available" ELSE "used",
                   assignedTo |-> Nil,
                   generatedBy |-> Root,
                   packageId |-> IF c = 101 THEN 1 ELSE 2]],
      wallets |-> <<[user |-> Root,
                     directReferralIncome |-> 10000 * n,
                     indirectReferralIncome |->
                       6400 * (6 * (n - 1) + (IF n < 25 THEN j ELSE 0))]>>,
      reqs |-> <<>>,
      history |-> <<>>]

\* a registration that presented the administrator's referral code and
\* pin 101, about to call getReferralParent(referrer)
InitLevel ==
  /\ \E n \in (MaxWide - 2)..MaxWide, j \in 0..6 : db = WideDb(n, j)
  /\ proc = [p \in Procs |->
               IF p = 1
                 THEN [h |-> "reg", pc |-> "children", snap |-> FALSE, ops |-> <<>>,
                       stale |-> {},
                       l |-> [mobileNumber |-> FirstNewMobile, referrer |-> Root,
                              pin |-> 101, packageId |-> 1]]
                 ELSE Idle]
  /\ resp = NoResp
  /\ committed = {}

NextLevel ==
  \E p \in Procs :
    \/ RegFindChildren(p)
    \/ RegFindEligible(p)
    \/ RegSaveUser(p)
    \/ RegCalcParentLevel(p)
    \/ RegCalcReferrerLevel(p)
    \/ RegUpdateParentLevel(p)
    \/ RegUpdateReferrerLevel(p)
    \/ RegFindWallet(p)
    \/ RegUpdateWallet(p)
    \/ RegUpdatePin(p)
    \/ RegCommit(p)

SpecLevel == InitLevel /\ [][NextLevel]_vars

\* WideDb with a second pin issued, of package 2
ClimbDb(n, j) ==
  [WideDb(n, j) EXCEPT
     !.pins = @ @@ (102 :> [status |-> "available", assignedTo |-> Nil,
                            generatedBy |-> Root, packageId |-> 2])]

\* two registrations that presented the administrator's referral code and
\* pins 101 and 102, about to call getReferralParent, while the
\* administrator has MaxWide or MaxWide + 1 children
InitClimb ==
  /\ \E n \in MaxWide..(MaxWide + 1), j \in 0..6 : db = ClimbDb(n, j)
  /\ proc = [p \in Procs |->
               [h |-> "reg", pc |-> "children", snap |-> FALSE, ops |-> <<>>,
                stale |-> {},
                l |-> [mobileNumber |-> FirstNewMobile + (p - 1), referrer |-> Root,
                       pin |-> 100 + p, packageId |-> p]]]
  /\ resp = NoResp
  /\ committed = {}

SpecClimb == InitClimb /\ [][NextLevel]_vars

\* totalCount of calculateUserLevel
totalCount(edges, userId) ==
  Cardinality({e \in edges : e[1] = userId})
  + Cardinality({e \in edges : e[1] # userId /\ e[2] = userId})

\* C13: after a registration commits, the levels stored for the placement
\* parent and for the referrer are computeLevel of their referral counts
\* with the new edge included, and the bonus lookup used those levels.
LevelsIncludeNewEdge ==
  [][\A p \in Procs :
       (proc[p].h = "reg" /\ proc[p].pc = "commit" /\ proc'[p].h = "idle")
         => LET l == proc[p].l
            IN /\ db'.users[l.parent].level = computeLevel(totalCount(db'.edges, l.parent))
               /\ db'.users[l.referrer].level = computeLevel(totalCount(db'.edges, l.referrer))
               /\ l.updatedLevelParent = computeLevel(totalCount(db'.edges, l.parent))
               /\ l.updatedLevelReferrer = computeLevel(totalCount(db'.edges, l.referrer))
    ]_vars

Thresholds == {25, 125, 625, 3125, 15625, 78125, 390625, 1953125, 9765625}

\* counts at, just below and just above each threshold
CountSamples == {0} \cup UNION {{t - 1, t, t + 1} : t \in Thresholds}

\* one level per threshold reached
levelOfCount(n) == 1 + Cardinality({t \in Thresholds : n >= t})

\* C14: computeLevel maps the total referral count to a level in 1..10 by
\* the thresholds 25 .. 9765625 (24 gives 1, 25 gives 2, 3125 gives 5), it
\* is non-decreasing in the count, calculateUserLevel and
\* calculateReferreUserLevel agree on every member, and the level a
\* registration computed is the one the thresholds give for the count read.
LevelThresholds ==
  /\ \A n \in CountSamples : computeLevel(n) = levelOfCount(n) /\ computeLevel(n) \in 1..10
  /\ computeLevel(24) = 1 /\ computeLevel(25) = 2 /\ computeLevel(3125) = 5
  /\ \A a, b \in CountSamples : a <= b => computeLevel(a) <= computeLevel(b)
  /\ \A u \in DOMAIN db.users :
       /\ calculateUserLevel(db.edges, u) = calculateReferreUserLevel(db.edges, u)
       /\ calculateUserLevel(db.edges, u) = levelOfCount(totalCount(db.edges, u))
  /\ \A p \in Procs :
       (proc[p].h = "reg" /\ "updatedLevelParent" \in DOMAIN proc[p].l)
         => proc[p].l.updatedLevelParent = levelOfCount(totalCount(db.edges, proc[p].l.parent))

\* the administrator's 25th child was registered: its count gives level 2,
\* while the registration before the threshold computed level 1
CrossedFirstThreshold ==
  /\ committed # {}
  /\ totalCount(db.edges, Root) = 25
  /\ calculateUserLevel(db.edges, Root) = 2
  /\ \E c \in committed : c.parent = Root /\ c.updatedLevelParent = 1

(* ------------------------------------------------------------------ *)
(* UserService.createUser                                              *)
(* ------------------------------------------------------------------ *)
MaxCreated == 1

\* members no referral edge points to, other than the administrator
Unattached(d) == {u \in DOMAIN d.users \ {Root} : \A e \in d.edges : e[2] # u}

\* The whole handler: User.findOne in its session, newUser.save({ session }),
\* commitTransaction.  It inserts one fresh document and nothing else, so
\* its steps commute with the other handlers except on the unique mobile
\* number, which a registration in flight may hold.
createUser(p) ==
  /\ Free(p)
  /\ Cardinality(Unattached(db)) < MaxCreated
  /\ \E m \in MobileInputs(p) :
       IF \E u \in DOMAIN db.users : db.users[u].mobileNumber = m
         THEN /\ resp' = Err("user", 400, "User with this mobile number or email already exists.")
              /\ UNCHANGED <<db, proc>>
         ELSE IF <<"mobile", m>> \in HeldByOthers(p)
           THEN /\ resp' = Err("user", 500, "User creation failed")
                /\ UNCHANGED <<db, proc>>
           ELSE /\ db' = Apply(db, [k |-> "insUser", id |-> FreshId(p), mobileNumber |-> m])
                /\ proc' = [q \in Procs |-> Staled(q, {<<"mobile", m>>})]
                /\ resp' = Err("user", 201, "User created successfully")
  /\ UNCHANGED committed

\* membership: registrations and direct user creation
NextMembers ==
  \E p \in Procs :
    \/ Register(p)
    \/ createUser(p)

SpecMembers == Init /\ [][NextMembers]_vars

DrawnDirect == {0, 10000, 20000}
DrawnIndirect == {0, 5000}
DrawnAmounts == {12000, 20000}

\* member 5 with no wallet, or with a wallet holding the drawn balances
WithdrawDb(has, d, i) ==
  IF has
    THEN [SeedDb EXCEPT !.wallets = Append(@,
            [user |-> 5, directReferralIncome |-> d, indirectReferralIncome |-> i])]
    ELSE SeedDb

InitWithdraw ==
  /\ \E has \in BOOLEAN, d \in DrawnDirect, i \in DrawnIndirect :
       /\ ~has => (d = 0 /\ i = 0)
       /\ db = WithdrawDb(has, d, i)
  /\ proc = [p \in Procs |-> Idle]
  /\ resp = NoResp
  /\ committed = {}

createWithdrawalRequestDrawn(p) == createRequestFor(p, {5}, DrawnAmounts)

NextWithdraw ==
  \E p \in Procs :
    \/ createWithdrawalRequestDrawn(p)
    \/ approveOrDenyWithdrawal(p)

SpecWithdraw == InitWithdraw /\ [][NextWithdraw]_vars

(* ------------------------------------------------------------------ *)
(* Two registrations in flight, and withdrawals of member 5            *)
(* ------------------------------------------------------------------ *)
\* a registration that passed the referrer and pin lookups against PairDb
Validated(mobileNumber, referrer, pin) ==
  [h |-> "reg", pc |-> "children", snap |-> FALSE, ops |-> <<>>, stale |-> {},
   l |-> [mobileNumber |-> mobileNumber, referrer |-> referrer,
          pin |-> pin, packageId |-> PairDb.pins[pin].packageId]]

\* two registrations with pins 102 and 103, each made with the referral
\* code of the administrator or of member 5, about to call
\* getReferralParent
InitWallets ==
  /\ db = PairDb
  /\ \E r1, r2 \in {Root, 5} :
       proc = [p \in Procs |->
                 IF p = 1 THEN Validated(FirstNewMobile, r1, 102)
                          ELSE Validated(FirstNewMobile + 1, r2, 103)]
  /\ resp = NoResp
  /\ committed = {}

\* member 5 asks for the 100.00 its first referral earned
PairAmounts == {10000}

createWithdrawalRequestOfFive(p) == createRequestFor(p, {5}, PairAmounts)

NextWallets ==
  \E p \in Procs :
    \/ RegFindChildren(p)
    \/ RegFindEligible(p)
    \/ RegSaveUser(p)
    \/ RegCalcParentLevel(p)
    \/ RegCalcReferrerLevel(p)
    \/ RegUpdateParentLevel(p)
    \/ RegUpdateReferrerLevel(p)
    \/ RegFindWallet(p)
    \/ RegUpdateWallet(p)
    \/ RegUpdatePin(p)
    \/ RegCommit(p)
    \/ createWithdrawalRequestOfFive(p)
    \/ approveOrDenyWithdrawal(p)

SpecWallets == InitWallets /\ [][NextWallets]_vars

totalOf(d, user) ==
  bucketOf(d, user, "directReferralIncome") + bucketOf(d, user, "indirectReferralIncome")

CreateRequestRule ==
  [][resp'.h = "create" =>
       LET ok == walletIndex(db, 5) # 0 /\ totalOf(db, 5) >= 10000
           n == Len(db.reqs)
       IN IF ok
            THEN /\ resp'.status = 201
                 /\ Len(db'.reqs) = n + 1
                 /\ \A r \in 1..n : db'.reqs[r] = db.reqs[r]
                 /\ db'.reqs[n + 1].user = 5
                 /\ db'.reqs[n + 1].status = "pending"
                 /\ db'.reqs[n + 1].amountRequested \in DrawnAmounts
                 /\ db'.reqs[n + 1].deductionAmount * 100 = db'.reqs[n + 1].amountRequested * 8
                 /\ db'.reqs[n + 1].netAmount =
                      db'.reqs[n + 1].amountRequested - db'.reqs[n + 1].deductionAmount
                 /\ db'.wallets = db.wallets
            ELSE /\ resp'.status # 201
                 /\ db' = db
    ]_vars

\* the member holding 100 + 50 asked for 120: deduction 9.6, net 110.4,
\* request pending, wallet untouched
RequestedOnHundredFifty ==
  /\ resp.h = "create" /\ resp.status = 201
  /\ Len(db.reqs) = 1
  /\ db.reqs[1] = [user |-> 5, amountRequested |-> 12000, deductionAmount |-> 960,
                   netAmount |-> 11040, status |-> "pending"]
  /\ bucketOf(db, 5, "directReferralIncome") = 10000
  /\ bucketOf(db, 5, "indirectReferralIncome") = 5000

\* C18: pin validation in registerUser: a registration goes on past the
\* validation (and so can commit) only if a pin with the given code exists,
\* its status is not used and, when the referrer is not an admin, it is
\* assigned to the referrer; otherwise the request is rejected.  A pin that
\* was never transferred is accepted only through an admin referrer.
PinValidation ==
  [][\A p \in Procs :
       (proc[p].h = "reg" /\ proc[p].pc = "pin0" /\ proc'[p] # proc[p]) =>
         LET referrer == proc[p].l.referrer
             admin == db.users[referrer].userType = "Admin"
             valid(c) == /\ c \in DOMAIN db.pins
                         /\ db.pins[c].status # "used"
                         /\ admin \/ db.pins[c].assignedTo = referrer
         IN IF proc'[p].h = "reg"
              THEN /\ proc'[p].pc = "children"
                   /\ valid(proc'[p].l.pin)
                   /\ db.pins[proc'[p].l.pin].assignedTo = Nil => admin
              ELSE /\ resp' = Err("reg", 400, "Invalid or used pin")
                   /\ db' = db
    ]_vars

\* a registration referred by member 5 committed with the pin that had been
\* transferred to member 5
ConsumedThroughMember ==
  /\ resp.h = "reg" /\ resp.status = 201
  /\ \E c \in committed : c.referrer = 5 /\ c.pin = 101
  /\ db.pins[101].status = "used" /\ db.pins[101].assignedTo = 5

\* C19: a committed registration sets its pin's status to used and the
\* pin's assignedTo to the newly registered member, and a registration that
\* afterwards presents a used pin is rejected.
ConsumeAssignsNewMember ==
  [][\A p \in Procs :
       /\ (proc[p].h = "reg" /\ proc[p].pc = "commit" /\ proc'[p].h = "idle")
            => /\ db'.pins[proc[p].l.pin].status = "used"
               /\ db'.pins[proc[p].l.pin].assignedTo = proc[p].l.uid
       /\ (/\ proc[p].h = "reg" /\ proc[p].pc = "pin0" /\ proc'[p].h = "reg"
           /\ proc'[p].pc = "children")
            => db.pins[proc'[p].l.pin].status # "used"
    ]_vars

\* C20: transferPin goes through only for a pin it found available and a
\* recipient it found to be an ordinary member; it then makes the pin
\* transferred with assignedTo = the recipient and records exactly one
\* history entry for it; an unknown, used or transferred pin and an unknown
\* or admin recipient are rejected with pin, history and recipient as they
\* were.
TransferRule ==
  [][/\ (resp'.h = "xfer" /\ resp'.status # 200) => db' = db
     /\ \A p \in Procs :
          /\ (proc[p].h = "xfer" /\ proc[p].pc = "findPin" /\ proc'[p] # proc[p]) =>
               IF proc'[p].h = "xfer"
                 THEN /\ proc'[p].pc = "findUser"
                      /\ proc'[p].l.pin \in DOMAIN db.pins
                      /\ db.pins[proc'[p].l.pin].status = "available"
                      /\ db' = db
                 ELSE resp'.h = "xfer" /\ resp'.status \in {400, 404}
          /\ (proc[p].h = "xfer" /\ proc[p].pc = "findUser" /\ proc'[p] # proc[p]) =>
               IF proc'[p].h = "xfer"
                 THEN /\ proc'[p].pc = "savePin"
                      /\ proc'[p].l.userId \in DOMAIN db.users
                      /\ db.users[proc'[p].l.userId].userType = "User"
                      /\ db' = db
                 ELSE resp'.h = "xfer" /\ resp'.status \in {400, 404}
          /\ (proc[p].h = "xfer" /\ proc[p].pc = "savePin" /\ proc'[p].pc # "savePin") =>
               /\ db' = [db EXCEPT !.pins[proc[p].l.pin].status = "transferred",
                                   !.pins[proc[p].l.pin].assignedTo = proc[p].l.userId]
          /\ (proc[p].h = "xfer" /\ proc[p].pc = "saveHistory" /\ proc'[p].pc # "saveHistory") =>
               /\ Len(db'.history) = Len(db.history) + 1
               /\ db'.history[Len(db'.history)].pin = proc[p].l.pin
               /\ db'.history[Len(db'.history)].toUser = proc[p].l.userId
               /\ \A i \in 1..Len(db.history) : db'.history[i] = db.history[i]
               /\ db'.pins = db.pins /\ db'.users = db.users
          /\ (proc[p].h = "xfer" /\ proc[p].pc = "saveUser" /\ proc'[p].h = "idle") =>
               /\ resp' = Err("xfer", 200, "Pin transferred successfully")
               /\ db'.pins = db.pins /\ db'.history = db.history
    ]_vars

\* pin 101 was transferred to member 5: one history entry, pin assigned
TransferredToMember ==
  /\ resp.h = "xfer" /\ resp.status = 200
  /\ db.pins[101].status = "transferred" /\ db.pins[101].assignedTo = 5
  /\ Len(db.history) = 1
  /\ db.history[1].pin = 101 /\ db.history[1].toUser = 5

\* C21: denying a withdrawal request sets its status to denied and changes
\* no wallet balance: no step of a denial, its commit included, changes the
\* direct or indirect bucket of any wallet, and the commit stores the status
\* denied.
DenyChangesNoWallet ==
  [][\A p \in Procs :
       (/\ proc[p].h = "adm" /\ proc'[p].pc # proc[p].pc
        /\ "status" \in DOMAIN proc[p].l /\ proc[p].l.status = "denied")
         => /\ db'.wallets = db.wallets
            /\ proc[p].pc \in {"saveReq", "commit"}
            /\ (proc[p].pc = "commit" /\ proc'[p].h = "idle") =>
                 /\ db'.reqs[proc[p].l.req].status = "denied"
                 /\ resp' = Err("adm", 200, "denied")
    ]_vars

\* the request of the member holding 100 + 50 was denied: still 100 + 50
DeniedWithWalletIntact ==
  /\ resp = Err("adm", 200, "denied")
  /\ Len(db.reqs) = 1 /\ db.reqs[1].status = "denied" /\ db.reqs[1].user = 5
  /\ bucketOf(db, 5, "directReferralIncome") = 10000
  /\ bucketOf(db, 5, "indirectReferralIncome") = 5000

\* C22: approveOrDenyWithdrawal called by a caller who is not an admin is
\* rejected with the authorization error (403) and changes neither the
\* request nor any wallet: only an admin's call gets as far as looking up
\* the request, whatever the target status, and the 403 answer leaves the
\* stored data and every handler in progress as they were.
NonAdminRejected ==
  [][/\ \A p \in Procs :
          (proc[p].h # "adm" /\ proc'[p].h = "adm") => proc'[p].l.userType = "Admin"
     /\ (resp'.h = "adm" /\ resp'.status = 403) => (db' = db /\ proc' = proc)
     /\ (resp'.h = "adm" /\ proc' = proc) => (resp'.status = 403 /\ db' = db)
    ]_vars

\* a caller without the admin role was turned away while the member's
\* request was pending: request and wallet as they were
TurnedAwayOnPending ==
  /\ resp.h = "adm" /\ resp.status = 403
  /\ Len(db.reqs) = 1 /\ db.reqs[1].status = "pending"
  /\ bucketOf(db, 5, "directReferralIncome") = 10000
  /\ bucketOf(db, 5, "indirectReferralIncome") = 5000

\* the wallet writes among the operations of a transaction
walletOps(ops) == {i \in 1..Len(ops) : ops[i].k \in {"insWallet", "incWallet", "saveWallet"}}

RECURSIVE creditSum(_, _, _)
\* what the registrations in S credited to the bucket `field` of `user`
creditSum(S, user, field) ==
  IF S = {} THEN 0
  ELSE LET c == CHOOSE x \in S : TRUE
       IN (IF c.credit.user = user /\ c.credit.field = field THEN c.credit.amount ELSE 0)
          + creditSum(S \ {c}, user, field)

IncomeFields == {"directReferralIncome", "indirectReferralIncome"}

\* C23: no wallet is credited twice for one registration.  Under every
\* interleaving of concurrent registrations each committed registration
\* applies exactly one wallet write, which adds its credit to one bucket of
\* one wallet and leaves the rest as it was; a step that commits nothing
\* (an abort included) changes no wallet; so every bucket holds what it
\* held at the start plus the credits of the committed registrations.
CreditedOncePerRegistration ==
  /\ [](\A u \in {Root, 5} : \A f \in IncomeFields :
          bucketOf(db, u, f) = bucketOf(PairDb, u, f) + creditSum(committed, u, f))
  /\ [](\A i \in 1..Len(db.wallets) : db.wallets[i].user \in {Root, 5})
  /\ [][/\ \A p \in Procs :
             (proc[p].h = "reg" /\ proc[p].pc = "commit" /\ proc'[p].h = "idle") =>
               LET c == proc[p].l.credit
               IN /\ Cardinality(walletOps(proc[p].ops)) = 1
                  /\ Cardinality(committed') = Cardinality(committed) + 1
                  /\ \A u \in {Root, 5} : \A f \in IncomeFields :
                       bucketOf(db', u, f) = bucketOf(db, u, f)
                         + (IF u = c.user /\ f = c.field THEN c.amount ELSE 0)
        /\ committed' = committed => db'.wallets = db.wallets
       ]_vars

\* two registrations made with the administrator's code, pins 101 and 102,
\* both committed; a third one was aborted on a write conflict in between
\* or after; the administrator's indirect income grew by 4 + 64
TwoCreditsOneReferrer ==
  /\ Cardinality(committed) = 2
  /\ \A c \in committed : c.referrer = Root /\ c.credit.user = Root
  /\ {c.pin : c \in committed} = {101, 102}
  /\ bucketOf(db, Root, "indirectReferralIncome") = 153600 + 400 + 6400
  /\ bucketOf(db, Root, "directReferralIncome") = 50000

\* C24: there is at most one wallet per member in every reachable state; a
\* wallet comes into existence only at the commit of a registration, as the
\* wallet of the member that registration credits; createWithdrawalRequest
\* and approveOrDenyWithdrawal never create one: on a member without a
\* wallet they fail with the wallet-not-found error and change nothing.
\* Two registrations crediting the wallet-less member 5 run concurrently.
OneWalletPerMember ==
  /\ [](\A i, j \in 1..Len(db.wallets) :
          db.wallets[i].user = db.wallets[j].user => i = j)
  /\ [][/\ Len(db'.wallets) >= Len(db.wallets)
        /\ Len(db'.wallets) > Len(db.wallets) =>
             \E p \in Procs :
               /\ proc[p].h = "reg" /\ proc[p].pc = "commit" /\ proc'[p].h = "idle"
               /\ Len(db'.wallets) = Len(db.wallets) + 1
               /\ db'.wallets[Len(db'.wallets)].user = proc[p].l.credit.user
               /\ walletIndex(db, proc[p].l.credit.user) = 0
        /\ (resp'.h = "create" /\ walletIndex(db, 5) = 0) =>
             (resp'.msg = "Wallet not found" /\ db' = db)
        /\ \A p \in Procs :
             (proc[p].h = "adm" /\ proc'[p] # proc[p]) => Len(db'.wallets) = Len(db.wallets)
        /\ \A p \in Procs :
             (/\ proc[p].h = "adm" /\ proc[p].pc = "findWallet" /\ proc'[p] # proc[p]
              /\ walletIndex(db, proc[p].l.user) = 0) =>
               (resp'.msg = "User wallet not found" /\ db' = db)
       ]_vars

\* of the two registrations that credit the wallet-less member 5, one
\* committed and created the wallet, the other was aborted
OneOfTwoCreatedTheWallet ==
  /\ Cardinality(committed) = 1
  /\ \A c \in committed : c.credit.user = 5
  /\ Cardinality({i \in 1..Len(db.wallets) : db.wallets[i].user = 5}) = 1
  /\ resp.h = "reg" /\ resp.status = 400 /\ resp.msg = "WriteConflict"

\* the writes of a pin operation in progress that have been applied
applied(p) ==
  CASE proc[p].h = "xfer" /\ proc[p].pc = "saveHistory" -> {"pin"}
    [] proc[p].h = "xfer" /\ proc[p].pc = "saveUser" -> {"pin", "history"}
    [] proc[p].h = "gen" /\ proc[p].pc = "saveUser" -> {"pin"}
    [] OTHER -> {}

\* C25: a pin operation that returns an error leaves no partial state: a
\* transferPin or generatePinAndSave call answers with an error only while
\* none of its writes has been applied, so that after a failed transfer the
\* pin and the history are as before the call and after a failed
\* generation no new pin exists.
PinErrorsLeaveNoPartialState ==
  [][\A p \in Procs :
       (/\ proc[p].h \in {"xfer", "gen"} /\ proc'[p].h = "idle"
        /\ resp'.status # 200)
         => /\ applied(p) = {}
            /\ proc[p].h = "gen" => proc[p].l.pin \notin DOMAIN db'.pins
    ]_vars

NotFoundMessages ==
  {"Invalid referral code", "Wallet not found", "User wallet not found",
   "Withdrawal request not found"}

\* C26: a not-found outcome is reported as a client error with nothing
\* changed: an unknown referral code in registerUser, a missing wallet in
\* createWithdrawalRequest or in an approval, and an unknown request id in
\* approveOrDenyWithdrawal are each answered with a 4xx status, never a 5xx
\* one, and leave the stored data as it was.
NotFoundIsClientError ==
  [][resp'.msg \in NotFoundMessages =>
       (resp'.status \in 400..499 /\ db' = db)
    ]_vars

\* the members two or more hops below r
belowChildren(edges, r) ==
  LET kids == referrerChildren(edges, r)
  IN UNION {referrerChildren(edges, c) : c \in kids} \ (kids \cup {r})

\* C27: the placement parent getReferralParent returns is the referrer or a
\* member that was a direct child of the referrer when the children were
\* read; it is never a member two or more hops below the referrer and never
\* a member outside the referrer's subtree.
ParentWithinOneHop ==
  [][\A p \in Procs :
       (/\ proc[p].h = "reg" /\ proc[p].pc \in {"children", "eligible"}
        /\ proc'[p].h = "reg" /\ proc'[p].pc = "save")
         => LET referrer == proc[p].l.referrer
                kids == IF proc[p].pc = "eligible" THEN proc[p].l.kids
                        ELSE referrerChildren(db.edges, referrer)
            IN /\ proc'[p].l.parent \in {referrer} \cup kids
               /\ proc[p].pc = "eligible" =>
                    proc[p].l.kids \subseteq referrerChildren(db.edges, referrer)
               /\ proc'[p].l.parent \notin belowChildren(db.edges, referrer)
    ]_vars

\* a child of the administrator was chosen while a member two hops below
\* the administrator had room for five more
ChildChosenOverGrandchild ==
  /\ proc[1].h = "reg" /\ proc[1].pc = "save"
  /\ proc[1].l.parent \in referrerChildren(db.edges, Root)
  /\ childCount(db, Root) >= 5
  /\ \E g \in belowChildren(db.edges, Root) : childCount(db, g) = 0

\* referralCode: mobileNumber, as registerUser stores it
referralCodeOf(d, u) == d.users[u].mobileNumber

\* C28: no two members share a mobile number or a referral code.  A
\* registration whose mobile number belongs to a member is rejected with
\* "User already exists" and creates nothing, a registration commits only
\* under a mobile number no member has, and so of two concurrent
\* registrations with one mobile number and different pins at most one
\* commits.
IdentityUnique ==
  /\ [](/\ Cardinality({db.users[u].mobileNumber : u \in DOMAIN db.users})
             = Cardinality(DOMAIN db.users)
        /\ Cardinality({referralCodeOf(db, u) : u \in DOMAIN db.users})
             = Cardinality(DOMAIN db.users))
  /\ [][\A p \in Procs :
          /\ (/\ proc[p].h = "reg" /\ proc[p].pc = "exists" /\ proc'[p] # proc[p]
              /\ \E u \in DOMAIN db.users :
                   db.users[u].mobileNumber = proc[p].l.mobileNumber)
               => /\ proc'[p].h = "idle"
                  /\ resp' = Err("reg", 400, "User already exists")
                  /\ db' = db
          /\ (proc[p].h = "reg" /\ proc[p].pc = "commit" /\ proc'[p].h = "idle")
               => /\ \A u \in DOMAIN db.users :
                       db.users[u].mobileNumber # proc[p].l.mobileNumber
                  /\ \A q \in Procs \ {p} :
                       (proc[q].h = "reg" /\ proc[q].l.mobileNumber = proc[p].l.mobileNumber)
                         => proc[q].ops = <<>>
       ]_vars

\* two registrations presented the first new mobile number with pins 101
\* and 102: the one with pin 102 committed, the other has passed the
\* existence check and the pin validation and is about to save its member
SameMobileInFlight ==
  /\ \E c \in committed : c.pin = 102 /\ db.users[c.uid].mobileNumber = FirstNewMobile
  /\ \E p \in Procs :
       /\ proc[p].h = "reg" /\ proc[p].pc = "save"
       /\ proc[p].l.mobileNumber = FirstNewMobile /\ proc[p].l.pin = 101

\* C29: a member's stored level never decreases: under every interleaving
\* of registrations no step lowers the level stored for a member, and the
\* levels a registration commits for its placement parent and its referrer
\* are at least the levels stored just before the commit.
LevelNeverDecreases ==
  [][/\ \A u \in DOMAIN db.users : db'.users[u].level >= db.users[u].level
     /\ \A p \in Procs :
          (proc[p].h = "reg" /\ proc[p].pc = "commit" /\ proc'[p].h = "idle") =>
            /\ proc[p].l.updatedLevelReferrer >= db.users[proc[p].l.referrer].level
            /\ proc[p].l.parent # proc[p].l.referrer =>
                 proc[p].l.updatedLevelParent >= db.users[proc[p].l.parent].level
    ]_vars

\* the administrator's 25th child was registered with level 1 written, and
\* the registration that committed after it wrote level 2
RoseToLevelTwo ==
  /\ Cardinality(committed) = 2
  /\ \E c \in committed : c.referrer = Root /\ c.updatedLevelReferrer = 1
  /\ \E c \in committed : c.referrer = Root /\ c.updatedLevelReferrer = 2
  /\ db.users[Root].level = 2

\* C30: wallet updates are never lost.  Under every interleaving of
\* registration credits and withdrawal approvals on one wallet, a commit of
\* a registration raises the credited wallet's total by exactly its credit
\* over the total stored just before, a commit of an approval lowers the
\* member's total by exactly the requested amount, and every other step
\* leaves all wallets as they are; so the final total is the initial total
\* plus the committed credits minus the committed approvals.
NoLostWalletUpdate ==
  [][\A u \in {Root, 5} :
       LET regs == {p \in Procs : proc[p].h = "reg" /\ proc[p].pc = "commit"
                                    /\ proc'[p].h = "idle"}
           apps == {p \in Procs : /\ proc[p].h = "adm" /\ proc[p].pc = "commit"
                                   /\ proc'[p].h = "idle"
                                   /\ proc[p].l.status = "approved"}
       IN /\ \A p \in regs :
               totalOf(db', u) = totalOf(db, u)
                 + (IF proc[p].l.credit.user = u THEN proc[p].l.credit.amount ELSE 0)
          /\ \A p \in apps :
               totalOf(db', u) = totalOf(db, u)
                 - (IF db.reqs[proc[p].l.req].user = u
                      THEN db.reqs[proc[p].l.req].amountRequested ELSE 0)
          /\ (regs = {} /\ apps = {}) => db'.wallets = db.wallets
    ]_vars

\* member 5 was credited 100 and 10 by two registrations and debited 100 by
\* an approval: 10 is left
CreditedTwiceDebitedOnce ==
  /\ Cardinality(committed) = 2
  /\ \A c \in committed : c.credit.user = 5
  /\ Len(db.reqs) = 1 /\ db.reqs[1].status = "approved"
  /\ totalOf(db, 5) = 10000 + 1000 - 10000

====
